---- MODULE Spec2Model ----
(***************************************************************************)
(* A model of scripts/analyze_enrichment_NSC.py: the load of the peak      *)
(* tables and the gene annotation, the promoter-window peak lookup, the    *)
(* seven enrichment methods and the module-level pipeline that runs them   *)
(* and writes the CSV / PDF artifacts.                                     *)
(*                                                                         *)
(* Representation.                                                         *)
(*  - A pandas DataFrame is [cols, rows]: pd.DataFrame() is NoColumns (no  *)
(*    columns, no rows); a frame that lost all its rows to a filter keeps  *)
(*    its columns.  Reading a column of NoColumns raises KeyError.         *)
(*  - A string is a sequence of one-character strings; a value that may be *)
(*    missing (None / NaN) is [na, s].                                     *)
(*  - A float score is an exact rational [k |-> "num", n, d], or "inf",    *)
(*    "nan"; a raised exception is [k |-> "KeyError"].                     *)
(*  - log2FoldChange is held in tenths and padj in hundredths.             *)
(*  - qValue is a power of ten [zero, e] (10^e, or exactly 0).             *)
(***************************************************************************)
EXTENDS Integers, Sequences, FiniteSets

VARIABLES
    pc,                 \* position in the script
    error,              \* the exception that ended the run ("" when none)
    dea,                \* the DEA table (rows), with gene_std once line 340 ran
    peaks_exo,          \* dict sample -> DataFrame, as a sequence of <<sample, df>>
    peaks_endo,
    depths_exo,         \* dict sample -> depth, as a sequence of <<sample, depth>>
    depths_endo,
    gtf,                \* what load_gene_annotations found: "unread", "ok", ...
    name_to_info,       \* dict standardized name -> annotation row
    upreg_genes,        \* list of standardized names (analyze_enrichment)
    total_genome_peaks,
    mi,                 \* index of the method being processed (1..7)
    gi,                 \* index of the next gene of upreg_genes
    enrichment_scores,  \* records collected for the current method
    last,               \* the locals of the last gene iteration
    results,            \* dict method -> table of records
    csv,                \* enrichment_<method>_NSC.csv as last written
    written,            \* the other artifacts written (PDF, summary CSV)
    probe               \* input and output of a stand-alone promoter_window call

vars == << pc, error, dea, peaks_exo, peaks_endo, depths_exo, depths_endo, gtf,
           name_to_info, upreg_genes, total_genome_peaks, mi, gi,
           enrichment_scores, last, results, csv, written, probe >>

-----------------------------------------------------------------------------
(* Program constants *)

PROMOTER_WINDOW == 2000

RPM_SCALE == 1000000

CLIP_HI == 50

\* log2FoldChange > 0.5, in tenths
LFC_MIN_TENTHS == 5

\* padj < 0.05, in hundredths
PADJ_MAX_HUNDREDTHS == 5

exo_samples == << "NSCv1", "NSCv2", "NSCv3" >>

endo_samples == << "NSCM1", "NSCM2", "NSCM3" >>

MethodNames == << "signal_ratio", "peak_count", "combined_score", "statistical",
                  "width_weighted", "coverage_score", "area_integration" >>

(* Bounds of the stand-alone promoter_window check *)

MaxCoord == 6

MaxWindow == 4

(* Bound of the stand-alone standardize_gene_name check: tokens per name *)

MaxTokens == 3

-----------------------------------------------------------------------------
(* Generic helpers *)

Max(a, b) == IF a >= b THEN a ELSE b

Min(a, b) == IF a <= b THEN a ELSE b

RECURSIVE Gcd(_, _)
Gcd(a, b) == IF b = 0 THEN a ELSE Gcd(b, a % b)

RECURSIVE SumSeq(_)
SumSeq(s) == IF s = << >> THEN 0 ELSE Head(s) + SumSeq(Tail(s))

RECURSIVE Flatten(_)
Flatten(ss) == IF ss = << >> THEN << >> ELSE Head(ss) \o Flatten(Tail(ss))

Range(s) == { s[i] : i \in 1..Len(s) }

IsPrefix(s, t) == Len(s) <= Len(t) /\ SubSeq(t, 1, Len(s)) = s

-----------------------------------------------------------------------------
(* DataFrames *)

NoColumns == [ cols |-> FALSE, rows |-> << >> ]

Frame(rows) == [ cols |-> TRUE, rows |-> rows ]

IsEmpty(df) == df.rows = << >>

\* len(df.groupby(['chr', 'start', 'end'])): the number of distinct loci
Distinct(df) == Cardinality({ << r.chr, r.start, r.end >> : r \in Range(df.rows) })

Width(r) == r.end - r.start

-----------------------------------------------------------------------------
(* Strings and standardize_gene_name *)

Str(s) == [ na |-> FALSE, s |-> s ]

NA == [ na |-> TRUE, s |-> << >> ]

Whitespace == { " ", "\t", "\n" }

StartsWith(s, p) == Len(s) >= Len(p) /\ SubSeq(s, 1, Len(p)) = p

\* s.split('.')[0]
RECURSIVE SplitDot0(_)
SplitDot0(s) ==
    IF s = << >> \/ Head(s) = "." THEN << >> ELSE << Head(s) >> \o SplitDot0(Tail(s))

RECURSIVE LStrip(_)
LStrip(s) == IF s # << >> /\ Head(s) \in Whitespace THEN LStrip(Tail(s)) ELSE s

RECURSIVE RStrip(_)
RStrip(s) ==
    IF s # << >> /\ s[Len(s)] \in Whitespace THEN RStrip(SubSeq(s, 1, Len(s) - 1)) ELSE s

Strip(s) == RStrip(LStrip(s))

prefixes == << << "g", "e", "n", "e", "-" >>,
               << "G", "e", "n", "e", "-" >>,
               << "G", "E", "N", "E", "-" >> >>

\* the loop of lines 160-162: each prefix in turn, on the name as it then is
RECURSIVE StripPrefixes(_, _)
StripPrefixes(s, ps) ==
    IF ps = << >> THEN s
    ELSE IF StartsWith(s, Head(ps))
         THEN StripPrefixes(SubSeq(s, Len(Head(ps)) + 1, Len(s)), Tail(ps))
         ELSE StripPrefixes(s, Tail(ps))

standardize_gene_name(gene_name) ==
    IF gene_name.na THEN NA
    ELSE Str(Strip(StripPrefixes(SplitDot0(gene_name.s), prefixes)))

-----------------------------------------------------------------------------
(* The inputs the environment may hand to the script *)

Q(e) == [ zero |-> FALSE, e |-> e ]

QZero == [ zero |-> TRUE, e |-> 0 ]

\* na: the columns read_csv filled with NaN for this line (an empty field)
Peak(c, s, e, sig, q) ==
    [ chr |-> c, start |-> s, end |-> e, signalValue |-> sig, qValue |-> q, na |-> { } ]

\* a line whose end field is empty
PeakNoEnd(c, s, sig, q) == [ Peak(c, s, 0, sig, q) EXCEPT !.na = { "end" } ]

\* comparisons with NaN are False
HasEnd(r) == "end" \notin r.na

\* peaks at gene A's promoter [0, 3000] on chr1: one inside, one with
\* start = promoter_end, one just after it, and a row with end <= start
RowsA == << Peak("chr1", 500, 502, 2, Q(-3)),
            Peak("chr1", 3000, 3001, 1, QZero),
            Peak("chr1", 3001, 3003, 5, Q(-2)),
            Peak("chr1", 700, 700, 1, Q(-1)) >>

\* peaks at gene B's promoter [3000, 7000] on chr2: one with end = promoter_start,
\* one just before it, one with start = promoter_end, a negative signal, and a
\* line with an empty end field
RowsB == << Peak("chr2", 2999, 3000, 3, Q(0)),
            Peak("chr2", 2997, 2999, 1, Q(-4)),
            Peak("chr1", 500, 502, -1, Q(-3)),
            Peak("chr2", 7000, 7002, 2, Q(-60)),
            PeakNoEnd("chr2", 3500, 4, Q(-5)) >>

\* a file none of whose rows is valid
RowsInvalid == << Peak("chr1", 10, 5, 1, Q(-1)), Peak("chr2", 100, 120, -2, Q(1)) >>

PeakFile(st, rows) == [ status |-> st, rows |-> rows ]

BamFile(st, n) == [ status |-> st, count |-> n ]

\* one sample's pair of files under DATA_DIR
SampleInputs ==
    { [ peaks |-> PeakFile("ok", RowsA),        bam |-> BamFile("ok", 500000) ],
      [ peaks |-> PeakFile("ok", RowsB),        bam |-> BamFile("missing", 0) ],
      [ peaks |-> PeakFile("ok", RowsInvalid),  bam |-> BamFile("noindex", 0) ],
      [ peaks |-> PeakFile("missing", << >>),   bam |-> BamFile("ok", 0) ],
      [ peaks |-> PeakFile("malformed", << >>), bam |-> BamFile("corrupt", 0) ] }

GtfRow(c, f, s, e, st, nm, id) ==
    [ chr |-> c, feature |-> f, start |-> s, end |-> e, strand |-> st,
      gene_name |-> nm, gene_id |-> id ]

GtfRows ==
    << GtfRow("chr1", "gene", 1000, 1800, "+", Str(<< "A" >>), Str(<< "E", "1", ".", "2" >>)),
       GtfRow("chr1", "transcript", 1000, 1500, "+", Str(<< "A" >>), Str(<< "E", "1", ".", "2" >>)),
       GtfRow("chr2", "gene", 4000, 5000, "-",
              Str(<< "g", "e", "n", "e", "-", "B" >>), Str(<< "E", "2" >>)),
       GtfRow("chr1", "gene", 6000, 7000, "+", NA, Str(<< "E", "3", ".", "1" >>)) >>

GtfFiles == { [ status |-> "missing", rows |-> << >> ],
              [ status |-> "unparseable", rows |-> << >> ],
              [ status |-> "ok", rows |-> GtfRows ] }

DeaRow(g, lfc, padj) == [ gene |-> g, log2FoldChange |-> lfc, padj |-> padj ]

NameGeneA1 == << "g", "e", "n", "e", "-", "A", ".", "1" >>

DeaFiles ==
    { [ status |-> "missing", rows |-> << >> ],
      [ status |-> "ok",
        rows |-> << DeaRow(Str(<< "B" >>), 8, 4),
                    DeaRow(Str(NameGeneA1), 12, 1),
                    DeaRow(Str(<< "C" >>), 20, 1),
                    DeaRow(NA, 30, 1),
                    DeaRow(Str(<< "E", "2" >>), 3, 1) >> ],
      [ status |-> "ok",
        rows |-> << DeaRow(Str(<< "A" >>), 2, 1),
                    DeaRow(Str(<< "E", "3" >>), 9, 2),
                    DeaRow(Str(<< "G", "e", "n", "e", "-", "A" >>), 15, 1),
                    DeaRow(Str(<< " ", "B" >>), 7, 6) >> ] }

-----------------------------------------------------------------------------
(* load_data: the helpers *)

ValidRow(r) == HasEnd(r) /\ r.end > r.start

NonNegative(r) == r.signalValue >= 0

validate_peak_file(df) ==
    IF IsEmpty(df) THEN df
    ELSE LET df1 == IF \E r \in Range(df.rows) : HasEnd(r) /\ r.end <= r.start
                    THEN [ df EXCEPT !.rows = SelectSeq(df.rows, ValidRow) ]
                    ELSE df
             df2 == IF \E r \in Range(df1.rows) : r.signalValue < 0
                    THEN [ df1 EXCEPT !.rows = SelectSeq(df1.rows, NonNegative) ]
                    ELSE df1
         IN  df2

\* a missing file, or one pandas cannot read (an empty file included), gives
\* pd.DataFrame()
load_peak_file(file) ==
    IF file.status # "ok" \/ file.rows = << >> THEN NoColumns
    ELSE validate_peak_file(Frame(file.rows))

calculate_sequencing_depth_safe(bam) ==
    IF bam.status # "ok" THEN 1 ELSE Max(bam.count, 1)

\* signalValue.clip(lower=0) * (1e6 / depth); the depths of SampleInputs divide 1e6
Normalize(df, depth) ==
    IF IsEmpty(df) THEN df
    ELSE [ df EXCEPT !.rows =
             [ i \in 1..Len(df.rows) |->
                 [ df.rows[i] EXCEPT !.signalValue =
                     Max(df.rows[i].signalValue, 0) * (RPM_SCALE \div depth) ] ] ]

AllEmpty(d) == \A i \in 1..Len(d) : IsEmpty(d[i][2])

\* the dict of lines 202-207: later rows overwrite earlier ones
RECURSIVE BuildIndex(_, _)
BuildIndex(rows, idx) ==
    IF rows = << >> THEN idx
    ELSE LET row == Head(rows)
             k1  == standardize_gene_name(row.gene_name).s
             k2  == standardize_gene_name(row.gene_id).s
             i1  == IF row.gene_name.na THEN idx
                    ELSE [ k \in DOMAIN idx \cup { k1 } |-> IF k = k1 THEN row ELSE idx[k] ]
             i2  == IF row.gene_id.na THEN i1
                    ELSE [ k \in DOMAIN i1 \cup { k2 } |-> IF k = k2 THEN row ELSE i1[k] ]
         IN  BuildIndex(Tail(rows), i2)

IsGene(row) == row.feature = "gene"

EmptyDict == [ k \in { } |-> 0 ]

load_gene_annotations(file) == BuildIndex(SelectSeq(file.rows, IsGene), EmptyDict)

-----------------------------------------------------------------------------
(* Promoter Locator *)

\* the strand ignored: anchored at the start coordinate on both strands
promoter_window_StartOnly(gene_info, window) ==
    [ start |-> Max(0, gene_info.start - window), end |-> gene_info.start + window ]

\* lines 224-229
promoter_window(gene_info, window) ==
    IF gene_info.strand = "+"
    THEN [ start |-> Max(0, gene_info.start - window), end |-> gene_info.start + window ]
    ELSE [ start |-> Max(0, gene_info.end - window), end |-> gene_info.end + window ]

\* the overlap test with strict comparisons
Overlapping_Strict(peaks, gene_info, w) ==
    LET onChr(r) == r.chr = gene_info.chr
        chr_peaks == SelectSeq(peaks.rows, onChr)
        hit(r) == r.start < w.end /\ HasEnd(r) /\ r.end > w.start
    IN  SelectSeq(chr_peaks, hit)

\* lines 235-241 on one sample's table (which has its columns)
Overlapping(peaks, gene_info, w) ==
    LET onChr(r) == r.chr = gene_info.chr
        chr_peaks == SelectSeq(peaks.rows, onChr)
        hit(r) == r.start <= w.end /\ HasEnd(r) /\ r.end >= w.start
    IN  SelectSeq(chr_peaks, hit)

Tagged(rows, sample) ==
    [ i \in 1..Len(rows) |->
        [ chr |-> rows[i].chr, start |-> rows[i].start, end |-> rows[i].end,
          signalValue |-> rows[i].signalValue, qValue |-> rows[i].qValue,
          na |-> rows[i].na, sample |-> sample ] ]

\* the loop of lines 232-245 over peaks_dict.items()
RECURSIVE CollectPeaks(_, _, _)
CollectPeaks(peaks_dict, gene_info, w) ==
    IF peaks_dict = << >> THEN << >>
    ELSE LET sample == Head(peaks_dict)[1]
             overlapping == Overlapping(Head(peaks_dict)[2], gene_info, w)
         IN  (IF overlapping # << >> THEN << Tagged(overlapping, sample) >> ELSE << >>)
             \o CollectPeaks(Tail(peaks_dict), gene_info, w)

KeyError == [ k |-> "KeyError" ]

\* gene is a standardized name already or a raw one; the result is a DataFrame, or
\* KeyError when a sample's table is pd.DataFrame() (peaks['chr'] at line 235)
get_peaks_near_gene(gene, peaks_dict, index, window) ==
    LET gene_std == standardize_gene_name(gene)
    IN  IF gene_std.na \/ gene_std.s \notin DOMAIN index THEN NoColumns
        ELSE IF \E i \in 1..Len(peaks_dict) : ~peaks_dict[i][2].cols THEN KeyError
        ELSE LET gene_info == index[gene_std.s]
                 all_peaks == CollectPeaks(peaks_dict, gene_info,
                                           promoter_window(gene_info, window))
             IN  IF all_peaks = << >> THEN NoColumns ELSE Frame(Flatten(all_peaks))

\* the sample column set on the rows of the sample tables themselves
TablesAfterLookup_InPlace(peaks_dict, gene, index, window) ==
    LET gene_std == standardize_gene_name(gene)
    IN  IF gene_std.na \/ gene_std.s \notin DOMAIN index THEN peaks_dict
        ELSE LET gene_info == index[gene_std.s]
                 w == promoter_window(gene_info, window)
                 hit(r) == /\ r.chr = gene_info.chr
                           /\ r.start <= w.end /\ HasEnd(r) /\ r.end >= w.start
             IN  [ i \in 1..Len(peaks_dict) |->
                     << peaks_dict[i][1],
                        [ peaks_dict[i][2] EXCEPT !.rows =
                            [ j \in 1..Len(peaks_dict[i][2].rows) |->
                                IF hit(peaks_dict[i][2].rows[j])
                                THEN Tagged(<< peaks_dict[i][2].rows[j] >>, peaks_dict[i][1])[1]
                                ELSE peaks_dict[i][2].rows[j] ] ] >> ]

\* what a call of get_peaks_near_gene leaves of peaks_dict: the boolean selections
\* of lines 235-240 are new frames and line 241 copies the rows before line 244
\* sets their sample column, so the sample tables stay as they were
TablesAfterLookup(peaks_dict, gene, index, window) == peaks_dict

\* peaks_dict after one call per gene of genes
RECURSIVE TablesAfterLookups(_, _, _, _)
TablesAfterLookups(peaks_dict, genes, index, window) ==
    IF genes = << >> THEN peaks_dict
    ELSE TablesAfterLookups(TablesAfterLookup(peaks_dict, Str(Head(genes)), index, window),
                            Tail(genes), index, window)

calculate_total_genome_peaks(pe, pn) ==
    SumSeq([ i \in 1..Len(pe) |-> Len(pe[i][2].rows) ])
    + SumSeq([ i \in 1..Len(pn) |-> Len(pn[i][2].rows) ])

-----------------------------------------------------------------------------
(* Floats, as exact rationals *)

Inf == [ k |-> "inf" ]

NaN == [ k |-> "nan" ]

Rat(n, d) == LET g == Gcd(n, d) IN [ k |-> "num", n |-> n \div g, d |-> d \div g ]

Zero == Rat(0, 1)

IsNum(x) == x.k = "num"

\* x / y on floats: a zero divisor gives inf or nan (numpy), never an exception
FloatDiv(x, y) ==
    IF ~IsNum(x) \/ ~IsNum(y) THEN NaN
    ELSE IF y.n = 0 THEN (IF x.n = 0 THEN NaN ELSE Inf)
    ELSE LET g1 == Gcd(x.n, y.n)
             g2 == Gcd(y.d, x.d)
         IN  Rat((x.n \div g1) * (y.d \div g2), (x.d \div g2) * (y.n \div g1))

Times(x, m) == IF IsNum(x) THEN Rat(x.n * m, x.d) ELSE x

\* Python's max(x, 1): x unless 1 > x (so a nan stays)
MaxOne(x) == IF IsNum(x) /\ x.n < x.d THEN Rat(1, 1) ELSE x

\* x < y on two rationals, by continued fractions (no cross product)
RECURSIVE RatLess(_, _, _, _)
RatLess(a, b, c, d) ==
    LET q1 == a \div b
        q2 == c \div d
        r1 == a % b
        r2 == c % d
    IN  IF q1 # q2 THEN q1 < q2
        ELSE IF r2 = 0 THEN FALSE
        ELSE IF r1 = 0 THEN TRUE
        ELSE RatLess(d, r2, b, r1)

\* x < y on scores that are not nan
ScoreLess(x, y) ==
    IF x.k = "inf" THEN FALSE
    ELSE IF y.k = "inf" THEN TRUE
    ELSE RatLess(x.n, x.d, y.n, y.d)

-----------------------------------------------------------------------------
(* Column reductions of a DataFrame that has its columns *)

SumSignal(df) == SumSeq([ i \in 1..Len(df.rows) |-> df.rows[i].signalValue ])

SumWidth(df) == SumSeq([ i \in 1..Len(df.rows) |-> Width(df.rows[i]) ])

\* np.mean of an empty column is nan
MeanSignal(df) == IF IsEmpty(df) THEN NaN ELSE Rat(SumSignal(df), Len(df.rows))

SumSignalWidth(df) ==
    SumSeq([ i \in 1..Len(df.rows) |-> df.rows[i].signalValue * Width(df.rows[i]) ])

\* np.clip(-np.log10(q), 0, 50): -log10(0) is +inf, clipped to 50
ClipNegLog10(q) == IF q.zero THEN CLIP_HI ELSE Min(Max(-q.e, 0), CLIP_HI)

SumArea(df) ==
    SumSeq([ i \in 1..Len(df.rows) |->
               Width(df.rows[i]) * df.rows[i].signalValue
               * ClipNegLog10(df.rows[i].qValue) ])

RECURSIVE Binom(_, _)
Binom(n, k) == IF k = 0 THEN 1 ELSE (Binom(n, k - 1) * (n - k + 1)) \div k

\* scipy.stats.fisher_exact([[a, b], [t - a, t - b]])[1], two-sided: both column
\* sums are t, the first row sum is a + b; the tables x with probability at most the
\* observed one are summed
FisherP(a, b, t) ==
    LET n  == a + b
        lo == Max(0, n - t)
        hi == Min(n, t)
        w(x) == Binom(t, x) * Binom(t, n - x)
        all == SumSeq([ i \in 1..(hi - lo + 1) |-> w(lo + i - 1) ])
        ext == SumSeq([ i \in 1..(hi - lo + 1) |->
                          IF w(lo + i - 1) <= w(a) THEN w(lo + i - 1) ELSE 0 ])
    IN  Rat(ext, all)

-----------------------------------------------------------------------------
(* define_enrichment_methods: the seven lambdas.  exo and endo are DataFrames; *)
(* a column read or a groupby on pd.DataFrame() raises KeyError.               *)

signal_ratio(exo, endo) ==
    IF Len(exo.rows) > 0 /\ Len(endo.rows) > 0
    THEN FloatDiv(MeanSignal(exo), MeanSignal(endo))
    ELSE IF Len(exo.rows) > 0 THEN Inf
    ELSE Zero

peak_count(exo, endo) ==
    IF ~exo.cols \/ ~endo.cols THEN KeyError
    ELSE Rat(Distinct(exo), Max(Distinct(endo), 1))

combined_score(exo, endo) ==
    IF Len(exo.rows) > 0
    THEN IF ~exo.cols \/ ~endo.cols THEN KeyError
         ELSE FloatDiv(Times(MeanSignal(exo), Distinct(exo)),
                       MaxOne(Times(MeanSignal(endo), Distinct(endo))))
    ELSE Zero

statistical(exo, endo, total) ==
    IF Len(exo.rows) > 0 \/ Len(endo.rows) > 0
    THEN IF ~exo.cols \/ ~endo.cols THEN KeyError
         ELSE FisherP(Distinct(exo), Distinct(endo), total)
    ELSE NaN

width_weighted(exo, endo) ==
    IF Len(exo.rows) > 0
    THEN IF ~exo.cols \/ ~endo.cols THEN KeyError
         ELSE FloatDiv(Rat(SumSignalWidth(exo), 1), MaxOne(Rat(SumSignalWidth(endo), 1)))
    ELSE Zero

coverage_score(exo, endo) ==
    IF Len(exo.rows) > 0
    THEN IF ~exo.cols \/ ~endo.cols THEN KeyError
         ELSE FloatDiv(Times(MeanSignal(exo), SumWidth(exo)),
                       MaxOne(Times(MeanSignal(endo), SumWidth(endo))))
    ELSE Zero

area_integration(exo, endo) ==
    IF Len(exo.rows) > 0
    THEN IF ~exo.cols \/ ~endo.cols THEN KeyError
         ELSE FloatDiv(Rat(SumArea(exo), 1), MaxOne(Rat(SumArea(endo), 1)))
    ELSE Zero

\* methods[method_name](exo, endo)
method_func(method_name, exo, endo, total) ==
    CASE method_name = "signal_ratio"     -> signal_ratio(exo, endo)
      [] method_name = "peak_count"       -> peak_count(exo, endo)
      [] method_name = "combined_score"   -> combined_score(exo, endo)
      [] method_name = "statistical"      -> statistical(exo, endo, total)
      [] method_name = "width_weighted"   -> width_weighted(exo, endo)
      [] method_name = "coverage_score"   -> coverage_score(exo, endo)
      [] method_name = "area_integration" -> area_integration(exo, endo)

-----------------------------------------------------------------------------
(* The script, top to bottom (lines 620-649), one action per step *)

NoLast == [ method |-> "", gene |-> << >>, exo_peaks |-> NoColumns,
            endo_peaks |-> NoColumns, called |-> FALSE,
            outcome |-> [ k |-> "none" ], emitted |-> FALSE ]

NoProbe == [ strand |-> "+", start |-> 0, end |-> 0, window |-> 0,
             out |-> [ start |-> 0, end |-> 0 ], done |-> FALSE ]

Init ==
    /\ pc = "read_dea"
    /\ error = ""
    /\ dea = << >>
    /\ peaks_exo = << >>
    /\ peaks_endo = << >>
    /\ depths_exo = << >>
    /\ depths_endo = << >>
    /\ gtf = "unread"
    /\ name_to_info = EmptyDict
    /\ upreg_genes = << >>
    /\ total_genome_peaks = 0
    /\ mi = 0
    /\ gi = 0
    /\ enrichment_scores = << >>
    /\ last = NoLast
    /\ results = EmptyDict
    /\ csv = EmptyDict
    /\ written = { }
    /\ probe = NoProbe

\* an exception that reaches the top level ends the script
Raise(e) == pc' = "aborted" /\ error' = e

\* line 37
ReadDea ==
    /\ pc = "read_dea"
    /\ \E f \in DeaFiles :
         IF f.status = "ok"
         THEN dea' = f.rows /\ pc' = "load_exo" /\ error' = error
         ELSE dea' = dea /\ Raise("FileNotFoundError: DEA_NSC.csv")
    /\ UNCHANGED << peaks_exo, peaks_endo, depths_exo, depths_endo, gtf, name_to_info,
                    upreg_genes, total_genome_peaks, mi, gi, enrichment_scores, last,
                    results, csv, written, probe >>

\* lines 116-122, one iteration
LoadExoSample ==
    /\ pc = "load_exo"
    /\ \E inp \in SampleInputs :
         LET sample == exo_samples[Len(peaks_exo) + 1]
             depth  == calculate_sequencing_depth_safe(inp.bam)
         IN  /\ peaks_exo' = Append(peaks_exo,
                    << sample, Normalize(load_peak_file(inp.peaks), depth) >>)
             /\ depths_exo' = Append(depths_exo, << sample, depth >>)
    /\ pc' = IF Len(peaks_exo') = Len(exo_samples) THEN "load_endo" ELSE "load_exo"
    /\ UNCHANGED << error, dea, peaks_endo, depths_endo, gtf, name_to_info, upreg_genes,
                    total_genome_peaks, mi, gi, enrichment_scores, last, results, csv,
                    written, probe >>

\* lines 125-131, one iteration
LoadEndoSample ==
    /\ pc = "load_endo"
    /\ \E inp \in SampleInputs :
         LET sample == endo_samples[Len(peaks_endo) + 1]
             depth  == calculate_sequencing_depth_safe(inp.bam)
         IN  /\ peaks_endo' = Append(peaks_endo,
                    << sample, Normalize(load_peak_file(inp.peaks), depth) >>)
             /\ depths_endo' = Append(depths_endo, << sample, depth >>)
    /\ pc' = IF Len(peaks_endo') = Len(endo_samples) THEN "check_peaks" ELSE "load_endo"
    /\ UNCHANGED << error, dea, peaks_exo, depths_exo, gtf, name_to_info, upreg_genes,
                    total_genome_peaks, mi, gi, enrichment_scores, last, results, csv,
                    written, probe >>

\* lines 134-136
CheckPeakData ==
    /\ pc = "check_peaks"
    /\ IF AllEmpty(peaks_exo) \/ AllEmpty(peaks_endo)
       THEN Raise("ValueError: Insufficient peak data for analysis")
       ELSE pc' = "load_annotations" /\ error' = error
    /\ UNCHANGED << dea, peaks_exo, peaks_endo, depths_exo, depths_endo, gtf,
                    name_to_info, upreg_genes, total_genome_peaks, mi, gi,
                    enrichment_scores, last, results, csv, written, probe >>

\* a missing or unparseable GTF taken as an annotation without genes
LoadGeneAnnotations_NoRaise ==
    /\ pc = "load_annotations"
    /\ \E f \in GtfFiles :
         /\ gtf' = f.status
         /\ name_to_info' = load_gene_annotations(f)
    /\ pc' = "plot_widths"
    /\ UNCHANGED << error, dea, peaks_exo, peaks_endo, depths_exo, depths_endo,
                    upreg_genes, total_genome_peaks, mi, gi, enrichment_scores, last,
                    results, csv, written, probe >>

\* line 139 (lines 166-212), and the return of load_data
LoadGeneAnnotations ==
    /\ pc = "load_annotations"
    /\ \E f \in GtfFiles :
         /\ gtf' = f.status
         /\ CASE f.status = "missing" ->
                   name_to_info' = name_to_info /\ Raise("FileNotFoundError: GTF file not found")
              [] f.status = "unparseable" ->
                   name_to_info' = name_to_info /\ Raise("ParserError: GTF")
              [] f.status = "ok" ->
                   /\ name_to_info' = load_gene_annotations(f)
                   /\ pc' = "plot_widths"
                   /\ error' = error
    /\ UNCHANGED << dea, peaks_exo, peaks_endo, depths_exo, depths_endo, upreg_genes,
                    total_genome_peaks, mi, gi, enrichment_scores, last, results, csv,
                    written, probe >>

HasNoColumns(d) == \E i \in 1..Len(d) : ~d[i][2].cols

\* line 628 (lines 472-509): peaks['end'] on every table, then the PDF
PlotPeakWidthDistributions ==
    /\ pc = "plot_widths"
    /\ IF HasNoColumns(peaks_exo) \/ HasNoColumns(peaks_endo)
       THEN written' = written /\ Raise("KeyError: 'end'")
       ELSE /\ written' = written \cup { "peak_width_distributions.pdf" }
            /\ pc' = "plot_detailed"
            /\ error' = error
    /\ UNCHANGED << dea, peaks_exo, peaks_endo, depths_exo, depths_endo, gtf,
                    name_to_info, upreg_genes, total_genome_peaks, mi, gi,
                    enrichment_scores, last, results, csv, probe >>

\* line 629 (lines 511-555)
PlotDetailedPeakWidthDistributions ==
    /\ pc = "plot_detailed"
    /\ IF HasNoColumns(peaks_exo) \/ HasNoColumns(peaks_endo)
       THEN written' = written /\ Raise("KeyError: 'end'")
       ELSE /\ written' = written \cup { "peak_width_distributions_detailed.pdf" }
            /\ pc' = "analyze"
            /\ error' = error
    /\ UNCHANGED << dea, peaks_exo, peaks_endo, depths_exo, depths_endo, gtf,
                    name_to_info, upreg_genes, total_genome_peaks, mi, gi,
                    enrichment_scores, last, results, csv, probe >>

\* lines 343-347: a nan never compares true; the values here are numbers
UpRegulated(row) ==
    /\ row.log2FoldChange > LFC_MIN_TENTHS
    /\ row.padj < PADJ_MAX_HUNDREDTHS
    /\ ~row.gene_std.na

WithGeneStd(rows) ==
    [ i \in 1..Len(rows) |->
        [ gene |-> rows[i].gene, log2FoldChange |-> rows[i].log2FoldChange,
          padj |-> rows[i].padj, gene_std |-> standardize_gene_name(rows[i].gene) ] ]

GeneStdOf(rows) == [ i \in 1..Len(rows) |-> rows[i].gene_std.s ]

\* lines 340-362: the head of analyze_enrichment, up to the first method's loop
BeginAnalysis ==
    /\ pc = "analyze"
    /\ dea' = WithGeneStd(dea)
    /\ upreg_genes' = GeneStdOf(SelectSeq(dea', UpRegulated))
    /\ total_genome_peaks' = calculate_total_genome_peaks(peaks_exo, peaks_endo)
    /\ results' = EmptyDict
    /\ mi' = 1
    /\ gi' = 1
    /\ enrichment_scores' = << >>
    /\ pc' = "gene_loop"
    /\ UNCHANGED << error, peaks_exo, peaks_endo, depths_exo, depths_endo, gtf,
                    name_to_info, last, csv, written, probe >>

\* dea[dea['gene_std'] == gene].iloc[0]
DeaInfo(rows, gene) ==
    LET i == CHOOSE i \in 1..Len(rows) :
                 /\ ~rows[i].gene_std.na /\ rows[i].gene_std.s = gene
                 /\ \A j \in 1..(i - 1) : rows[j].gene_std.na \/ rows[j].gene_std.s # gene
    IN  rows[i]

\* the f"{chr}:{start}-{end}" strings, kept as triples; 'None' is the empty list
Coords(df) == [ i \in 1..Len(df.rows) |->
                  << df.rows[i].chr, df.rows[i].start, df.rows[i].end >> ]

EnrichmentRecord(gene, score, dea_info, exo, endo) ==
    [ gene |-> gene, enrichment_score |-> score,
      log2FoldChange |-> dea_info.log2FoldChange, padj |-> dea_info.padj,
      exo_peaks |-> Coords(exo), endo_peaks |-> Coords(endo),
      num_exo_peaks |-> Len(exo.rows), num_endo_peaks |-> Len(endo.rows) ]

\* the body of the try of lines 368-400 for one gene: the locals it leaves, and the
\* record it appends if any; an exception leaves the loop body at once
GeneIteration(method_name, gene) ==
    LET exo  == get_peaks_near_gene(Str(gene), peaks_exo, name_to_info, PROMOTER_WINDOW)
        endo == get_peaks_near_gene(Str(gene), peaks_endo, name_to_info, PROMOTER_WINDOW)
        base == [ NoLast EXCEPT !.method = method_name, !.gene = gene ]
    IN  IF exo = KeyError \/ endo = KeyError
        THEN [ base EXCEPT !.outcome = KeyError ]
        ELSE IF IsEmpty(exo) /\ IsEmpty(endo)
        THEN [ base EXCEPT !.exo_peaks = exo, !.endo_peaks = endo ]
        ELSE LET score == method_func(method_name, exo, endo, total_genome_peaks)
             IN  [ base EXCEPT !.exo_peaks = exo, !.endo_peaks = endo, !.called = TRUE,
                               !.outcome = score,
                               !.emitted = score.k \notin { "KeyError", "nan" } ]

\* the exception of a gene not caught: it ends the script
OnGeneError_Propagates == Raise("KeyError") /\ gi' = gi

\* lines 402-404: the exception is printed and the loop goes on
OnGeneError == pc' = "gene_loop" /\ gi' = gi + 1 /\ error' = error

\* lines 364-404, one iteration
ProcessGene ==
    /\ pc = "gene_loop"
    /\ gi <= Len(upreg_genes)
    /\ last' = GeneIteration(MethodNames[mi], upreg_genes[gi])
    /\ enrichment_scores' =
         IF last'.emitted
         THEN Append(enrichment_scores,
                     EnrichmentRecord(last'.gene, last'.outcome,
                                      DeaInfo(dea, last'.gene),
                                      last'.exo_peaks, last'.endo_peaks))
         ELSE enrichment_scores
    /\ IF last'.outcome = KeyError
       THEN OnGeneError
       ELSE pc' = "gene_loop" /\ gi' = gi + 1 /\ error' = error
    /\ peaks_exo' = TablesAfterLookup(peaks_exo, Str(upreg_genes[gi]), name_to_info,
                                      PROMOTER_WINDOW)
    /\ peaks_endo' = TablesAfterLookup(peaks_endo, Str(upreg_genes[gi]), name_to_info,
                                       PROMOTER_WINDOW)
    /\ UNCHANGED << dea, depths_exo, depths_endo, gtf,
                    name_to_info, upreg_genes, total_genome_peaks, mi, results, csv,
                    written, probe >>

\* lines 406-410, and the step to the next method or out of the loop
EndMethod ==
    /\ pc = "gene_loop"
    /\ gi > Len(upreg_genes)
    /\ results' =
         IF enrichment_scores # << >>
         THEN [ m \in DOMAIN results \cup { MethodNames[mi] } |->
                  IF m = MethodNames[mi] THEN enrichment_scores ELSE results[m] ]
         ELSE results
    /\ IF mi < Len(MethodNames)
       THEN mi' = mi + 1 /\ gi' = 1 /\ enrichment_scores' = << >> /\ pc' = "gene_loop"
       ELSE mi' = mi /\ gi' = gi /\ enrichment_scores' = enrichment_scores
            /\ pc' = "save_sorted"
    /\ UNCHANGED << error, dea, peaks_exo, peaks_endo, depths_exo, depths_endo, gtf,
                    name_to_info, upreg_genes, total_genome_peaks, last, csv, written,
                    probe >>

\* non-increasing in enrichment_score (no score is nan: line 379)
IsSortedDesc(t) ==
    \A i \in 1..Len(t) : \A j \in (i + 1)..Len(t) :
        ~ScoreLess(t[i].enrichment_score, t[j].enrichment_score)

IndexPerms(n) == { f \in [ 1..n -> 1..n ] : \A i, j \in 1..n : f[i] = f[j] => i = j }

\* df.sort_values('enrichment_score', ascending=False): the default kind is
\* quicksort, which is not stable, so rows of equal score come in any order
SortValues(t) ==
    { [ i \in 1..Len(t) |-> t[f[i]] ] : f \in
        { g \in IndexPerms(Len(t)) : IsSortedDesc([ i \in 1..Len(t) |-> t[g[i]] ]) } }

\* every way the loop of lines 413-416 can write the tables of the methods ms
RECURSIVE SortedTables(_, _)
SortedTables(res, ms) ==
    IF ms = { } THEN { EmptyDict }
    ELSE LET m == CHOOSE x \in ms : TRUE
         IN  { [ k \in DOMAIN c \cup { m } |-> IF k = m THEN t ELSE c[k] ] :
                 c \in SortedTables(res, ms \ { m }), t \in SortValues(res[m]) }

\* lines 413-416
SaveSortedResults ==
    /\ pc = "save_sorted"
    /\ csv' \in SortedTables(results, DOMAIN results)
    /\ pc' = "plot_enrichment"
    /\ UNCHANGED << error, dea, peaks_exo, peaks_endo, depths_exo, depths_endo, gtf,
                    name_to_info, upreg_genes, total_genome_peaks, mi, gi,
                    enrichment_scores, last, results, written, probe >>

\* line 635 (lines 420-438)
PlotEnrichment ==
    /\ pc = "plot_enrichment"
    /\ written' = written \cup { "enrichment_analysis_NSC.pdf" }
    /\ pc' = "summarize"
    /\ UNCHANGED << error, dea, peaks_exo, peaks_endo, depths_exo, depths_endo, gtf,
                    name_to_info, upreg_genes, total_genome_peaks, mi, gi,
                    enrichment_scores, last, results, csv, probe >>

\* line 638 (lines 440-462)
SummarizeResults ==
    /\ pc = "summarize"
    /\ written' = written \cup { "enrichment_summary_NSC.csv" }
    /\ pc' = "save_results"
    /\ UNCHANGED << error, dea, peaks_exo, peaks_endo, depths_exo, depths_endo, gtf,
                    name_to_info, upreg_genes, total_genome_peaks, mi, gi,
                    enrichment_scores, last, results, csv, probe >>

\* lines 641-642: every table of results, as it is, over the file of line 416
SaveResults ==
    /\ pc = "save_results"
    /\ csv' = [ m \in DOMAIN results |-> results[m] ]
    /\ pc' = "plot_width_vs_enrichment"
    /\ UNCHANGED << error, dea, peaks_exo, peaks_endo, depths_exo, depths_endo, gtf,
                    name_to_info, upreg_genes, total_genome_peaks, mi, gi,
                    enrichment_scores, last, results, written, probe >>

WidthMethods == { "width_weighted", "coverage_score", "area_integration" }

GenesOf(tbl) == [ i \in 1..Len(tbl) |-> tbl[i].gene ]

\* line 645 (lines 557-601): results['width_weighted'] at line 563 and
\* results[method] at line 579 raise KeyError for a method without a table; the
\* loop of lines 563-571 looks the peaks of every gene of width_weighted up again
PlotWidthVsEnrichment ==
    /\ pc = "plot_width_vs_enrichment"
    /\ IF "width_weighted" \notin DOMAIN results
       THEN /\ written' = written /\ Raise("KeyError: 'width_weighted'")
            /\ UNCHANGED << peaks_exo, peaks_endo >>
       ELSE /\ peaks_exo' = TablesAfterLookups(peaks_exo, GenesOf(results["width_weighted"]),
                                               name_to_info, PROMOTER_WINDOW)
            /\ peaks_endo' = TablesAfterLookups(peaks_endo, GenesOf(results["width_weighted"]),
                                                name_to_info, PROMOTER_WINDOW)
            /\ IF ~(WidthMethods \subseteq DOMAIN results)
               THEN written' = written /\ Raise("KeyError: results[method]")
               ELSE /\ written' = written \cup { "width_vs_enrichment_NSC.pdf" }
                    /\ pc' = "summarize_distribution"
                    /\ error' = error
    /\ UNCHANGED << dea, depths_exo, depths_endo, gtf,
                    name_to_info, upreg_genes, total_genome_peaks, mi, gi,
                    enrichment_scores, last, results, csv, probe >>

\* line 648 (lines 603-618), the last step of the script
SummarizePeakDistribution ==
    /\ pc = "summarize_distribution"
    /\ written' = written \cup { "peak_distribution_summary_NSC.csv" }
    /\ pc' = "done"
    /\ UNCHANGED << error, dea, peaks_exo, peaks_endo, depths_exo, depths_endo, gtf,
                    name_to_info, upreg_genes, total_genome_peaks, mi, gi,
                    enrichment_scores, last, results, csv, probe >>

Next ==
    \/ ReadDea
    \/ LoadExoSample
    \/ LoadEndoSample
    \/ CheckPeakData
    \/ LoadGeneAnnotations
    \/ PlotPeakWidthDistributions
    \/ PlotDetailedPeakWidthDistributions
    \/ BeginAnalysis
    \/ ProcessGene
    \/ EndMethod
    \/ SaveSortedResults
    \/ PlotEnrichment
    \/ SummarizeResults
    \/ SaveResults
    \/ PlotWidthVsEnrichment
    \/ SummarizePeakDistribution

Spec == Init /\ [][Next]_vars

-----------------------------------------------------------------------------
(* promoter_window on its own: every strand, gene span and window of the bounds *)

InitWindow ==
    /\ pc = "probe"
    /\ error = ""
    /\ dea = << >>
    /\ peaks_exo = << >>
    /\ peaks_endo = << >>
    /\ depths_exo = << >>
    /\ depths_endo = << >>
    /\ gtf = "unread"
    /\ name_to_info = EmptyDict
    /\ upreg_genes = << >>
    /\ total_genome_peaks = 0
    /\ mi = 0
    /\ gi = 0
    /\ enrichment_scores = << >>
    /\ last = NoLast
    /\ results = EmptyDict
    /\ csv = EmptyDict
    /\ written = { }
    /\ \E st \in { "+", "-" }, s \in 0..MaxCoord, e \in 0..MaxCoord, w \in 0..MaxWindow :
         /\ s <= e
         /\ probe = [ NoProbe EXCEPT !.strand = st, !.start = s, !.end = e, !.window = w ]

CallPromoterWindow ==
    /\ pc = "probe"
    /\ probe' = [ probe EXCEPT !.out = promoter_window(probe, probe.window),
                               !.done = TRUE ]
    /\ pc' = "probed"
    /\ UNCHANGED << error, dea, peaks_exo, peaks_endo, depths_exo, depths_endo, gtf,
                    name_to_info, upreg_genes, total_genome_peaks, mi, gi,
                    enrichment_scores, last, results, csv, written >>

NextWindow == CallPromoterWindow

SpecWindow == InitWindow /\ [][NextWindow]_vars

-----------------------------------------------------------------------------
(* standardize_gene_name on its own: missing values and every name of at most
   MaxTokens tokens *)

NameTokens == { << " " >>, << "." >>, << "A" >>, << "1" >>,
                prefixes[1], prefixes[2], prefixes[3] }

NameInputs ==
    { NA } \cup { Str(Flatten(ts)) : ts \in UNION { [ 1..n -> NameTokens ] : n \in 0..MaxTokens } }

InitStandardize ==
    /\ pc = "probe"
    /\ error = ""
    /\ dea = << >>
    /\ peaks_exo = << >>
    /\ peaks_endo = << >>
    /\ depths_exo = << >>
    /\ depths_endo = << >>
    /\ gtf = "unread"
    /\ name_to_info = EmptyDict
    /\ upreg_genes = << >>
    /\ total_genome_peaks = 0
    /\ mi = 0
    /\ gi = 0
    /\ enrichment_scores = << >>
    /\ last = NoLast
    /\ results = EmptyDict
    /\ csv = EmptyDict
    /\ written = { }
    /\ \E x \in NameInputs : probe = [ gene_name |-> x, once |-> NA, twice |-> NA, done |-> FALSE ]

\* standardize_gene_name(x), and standardize_gene_name on what it returned
CallStandardize ==
    /\ pc = "probe"
    /\ probe' = [ probe EXCEPT
                    !.once = standardize_gene_name(probe.gene_name),
                    !.twice = standardize_gene_name(standardize_gene_name(probe.gene_name)),
                    !.done = TRUE ]
    /\ pc' = "probed"
    /\ UNCHANGED << error, dea, peaks_exo, peaks_endo, depths_exo, depths_endo, gtf,
                    name_to_info, upreg_genes, total_genome_peaks, mi, gi,
                    enrichment_scores, last, results, csv, written >>

NextStandardize == CallStandardize

SpecStandardize == InitStandardize /\ [][NextStandardize]_vars

-----------------------------------------------------------------------------
(* Properties *)

ProcessedAGene == last.method # ""

\* the gene iteration that left last is the latest step of the current method
JustProcessed == pc = "gene_loop" /\ mi \in 1..Len(MethodNames) /\ last.method = MethodNames[mi]

ExoOnly == last.called /\ ~IsEmpty(last.exo_peaks) /\ IsEmpty(last.endo_peaks)

EndoOnly == last.called /\ IsEmpty(last.exo_peaks) /\ ~IsEmpty(last.endo_peaks)

RatioMethods == { "signal_ratio", "peak_count", "combined_score", "width_weighted",
                  "coverage_score", "area_integration" }

\* the exo-only column of the table of the methods: the numerator over 1
ExoOnlyScore(method_name, exo) ==
    CASE method_name = "signal_ratio"     -> Inf
      [] method_name = "peak_count"       -> Rat(Distinct(exo), 1)
      [] method_name = "combined_score"   -> Rat(SumSignal(exo) * Distinct(exo), Len(exo.rows))
      [] method_name = "width_weighted"   -> Rat(SumSignalWidth(exo), 1)
      [] method_name = "coverage_score"   -> Rat(SumWidth(exo) * SumSignal(exo), Len(exo.rows))
      [] method_name = "area_integration" -> Rat(SumArea(exo), 1)

\* C1: for a gene with exo peaks and no endo peaks every ratio method returns a
\* score: +infinity for signal_ratio, and its exo numerator over a denominator
\* clamped to 1 for the five others.
C1_ExoOnlyScores ==
    (ExoOnly /\ last.method \in RatioMethods)
        => last.outcome = ExoOnlyScore(last.method, last.exo_peaks)

\* C2: for a gene with endo peaks and no exo peaks each of the six ratio methods
\* returns 0, and a record with enrichment_score 0 is emitted for that gene.
C2_EndoOnlyZeroRecord ==
    (JustProcessed /\ EndoOnly /\ last.method \in RatioMethods)
        => /\ last.outcome = Zero
           /\ enrichment_scores # << >>
           /\ enrichment_scores[Len(enrichment_scores)].gene = last.gene
           /\ enrichment_scores[Len(enrichment_scores)].enrichment_score = Zero

IsPValue(x) == x.k = "num" /\ 0 <= x.n /\ x.n <= x.d

\* C3: the statistical method gives nan only when both subsets are empty; with at
\* least one of them nonempty it gives a p-value in [0, 1], not nan or a failure.
C3_FisherPValueUnlessBothEmpty ==
    (ProcessedAGene /\ last.method = "statistical")
        => /\ (~IsEmpty(last.exo_peaks) \/ ~IsEmpty(last.endo_peaks))
                 => IsPValue(last.outcome)
           /\ last.outcome = NaN => (IsEmpty(last.exo_peaks) /\ IsEmpty(last.endo_peaks))

\* C4: a gene whose processing raises is skipped for that method only: the loop
\* steps to the next gene of the same method with the records collected so far and
\* the tables of the earlier methods kept; a method is left only after its last
\* gene, for the next method, and the loop only after the last method.
C4_GeneErrorSkipsOnlyThatGene ==
    [][ /\ (pc = "gene_loop" /\ gi <= Len(upreg_genes) /\ last'.outcome = KeyError)
            => /\ pc' = "gene_loop" /\ mi' = mi /\ gi' = gi + 1
               /\ enrichment_scores' = enrichment_scores
               /\ results' = results
        /\ (pc = "gene_loop" /\ gi <= Len(upreg_genes))
            => /\ pc' = "gene_loop" /\ mi' = mi /\ gi' = gi + 1
               /\ IsPrefix(enrichment_scores, enrichment_scores')
               /\ upreg_genes' = upreg_genes
        /\ (pc = "gene_loop" /\ mi' # mi)
            => gi = Len(upreg_genes) + 1 /\ mi' = mi + 1 /\ gi' = 1 /\ pc' = "gene_loop"
        /\ (pc = "gene_loop" /\ pc' # "gene_loop")
            => pc' = "save_sorted" /\ mi = Len(MethodNames) /\ gi = Len(upreg_genes) + 1
        /\ (pc = "gene_loop")
            => \A m \in DOMAIN results : m \in DOMAIN results' /\ results'[m] = results[m]
      ]_vars

\* a gene raised under combined_score after a record was collected, peak_count
\* before it lost every gene and signal_ratio kept its table
C4_Witness ==
    /\ pc = "gene_loop"
    /\ last.method = "combined_score"
    /\ last.outcome = KeyError
    /\ enrichment_scores # << >>
    /\ "signal_ratio" \in DOMAIN results
    /\ "peak_count" \notin DOMAIN results

\* t is tbl in non-increasing score order with equal scores in the order of tbl
IsStableSortOf(t, tbl) ==
    \E f \in IndexPerms(Len(tbl)) :
        /\ Len(t) = Len(tbl)
        /\ \A i \in 1..Len(tbl) : t[i] = tbl[f[i]]
        /\ \A i \in 1..Len(tbl) : \A j \in (i + 1)..Len(tbl) :
             \/ ScoreLess(t[j].enrichment_score, t[i].enrichment_score)
             \/ (t[j].enrichment_score = t[i].enrichment_score /\ f[i] < f[j])

\* C5: when the run finishes, each enrichment_<method>_NSC.csv as last written is
\* non-increasing in enrichment_score, +infinity first, ties in processing order.
C5_FinalCsvSorted ==
    pc = "done" => \A m \in DOMAIN csv : IsStableSortOf(csv[m], results[m])

NoOutput == written = { } /\ DOMAIN csv = { }

FatalErrors == { "FileNotFoundError: GTF file not found", "ParserError: GTF",
                 "ValueError: Insufficient peak data for analysis" }

\* C6: a fatal input error (annotation missing or unparseable, both conditions
\* entirely empty) aborts the run, with no CSV or PDF written when it aborts: no
\* run gets past load_data on such an input.
C6_FatalAbortsBeforeOutput ==
    /\ (pc = "aborted" /\ error \in FatalErrors) => NoOutput
    /\ gtf \in { "missing", "unparseable" } => (pc = "aborted" /\ NoOutput)
    /\ ( /\ Len(peaks_exo) = Len(exo_samples) /\ Len(peaks_endo) = Len(endo_samples)
         /\ AllEmpty(peaks_exo) /\ AllEmpty(peaks_endo)
         /\ pc # "check_peaks" )
         => (pc = "aborted" /\ NoOutput)

C6_Witness ==
    /\ pc = "aborted"
    /\ gtf = "missing"
    /\ error = "FileNotFoundError: GTF file not found"
    /\ ~AllEmpty(peaks_exo)
    /\ ~AllEmpty(peaks_endo)

SampleFileErrors == { "ValueError: Insufficient peak data for analysis", "KeyError: 'end'" }

\* C7: a missing or malformed peak or alignment file of a sample never fails the
\* run, whatever the set of samples it happens to (the one case set apart is both
\* conditions entirely empty, which is fatal).
C7_SampleFilesNeverFail ==
    (pc = "aborted" /\ error \in SampleFileErrors)
        => (AllEmpty(peaks_exo) /\ AllEmpty(peaks_endo))

AfterAnalyzePcs == { "save_sorted", "plot_enrichment", "summarize", "save_results",
                     "plot_width_vs_enrichment", "summarize_distribution", "done" }

\* C8: once analyze_enrichment is through its loop, results holds a table for each
\* of the seven methods, so the lookups of plot_width_vs_enrichment find theirs.
C8_ResultsHoldEveryMethod ==
    /\ pc \in AfterAnalyzePcs => \A i \in 1..Len(MethodNames) : MethodNames[i] \in DOMAIN results
    /\ error # "KeyError: 'width_weighted'"
    /\ error # "KeyError: results[method]"

\* the promoter window of the gene a standardized name resolves to
ClaimedWindow(info, window) ==
    LET tss == IF info.strand = "+" THEN info.start ELSE info.end
    IN  [ start |-> IF tss - window < 0 THEN 0 ELSE tss - window, end |-> tss + window ]

\* the places <<sample position, row position>> of the peaks of the dict d that
\* lie on the gene's chromosome and touch its promoter window
Hits(gene, d) ==
    LET info == name_to_info[gene]
        w == ClaimedWindow(info, PROMOTER_WINDOW)
    IN  { p \in UNION { { << i, j >> : j \in 1..Len(d[i][2].rows) } : i \in 1..Len(d) } :
            /\ d[p[1]][2].rows[p[2]].chr = info.chr
            /\ d[p[1]][2].rows[p[2]].start <= w.end
            /\ HasEnd(d[p[1]][2].rows[p[2]])
            /\ d[p[1]][2].rows[p[2]].end >= w.start }

PlaceBefore(p, q) == p[1] < q[1] \/ (p[1] = q[1] /\ p[2] < q[2])

SamePeak(r, row) ==
    /\ r.chr = row.chr /\ r.start = row.start /\ r.end = row.end
    /\ r.signalValue = row.signalValue /\ r.qValue = row.qValue

IsPeaksNearGene(df, gene, d) ==
    IF gene \notin DOMAIN name_to_info THEN IsEmpty(df)
    ELSE LET H == Hits(gene, d)
         IN  /\ Len(df.rows) = Cardinality(H)
             /\ \A p \in H :
                  LET k == Cardinality({ q \in H : PlaceBefore(q, p) }) + 1
                  IN  /\ df.rows[k].sample = d[p[1]][1]
                      /\ SamePeak(df.rows[k], d[p[1]][2].rows[p[2]])

\* C9: for a resolvable gene the lookup returns exactly the peaks on the gene's
\* chromosome with start <= window end and end >= window start, in sample order
\* and then row order, equal coordinates of different samples each kept; for an
\* unresolvable gene it returns an empty subset.
C9_PeaksNearGeneExact ==
    ProcessedAGene
        => /\ IsPeaksNearGene(last.exo_peaks, last.gene, peaks_exo)
           /\ IsPeaksNearGene(last.endo_peaks, last.gene, peaks_endo)

\* gene A: the peak that starts on the window's end is in, under two samples
C9_Witness ==
    /\ ProcessedAGene
    /\ last.gene = << "A" >>
    /\ \E i, j \in 1..Len(last.exo_peaks.rows) :
         /\ i < j
         /\ last.exo_peaks.rows[i].start = 3000
         /\ last.exo_peaks.rows[j].start = 3000
         /\ last.exo_peaks.rows[i].sample # last.exo_peaks.rows[j].sample
    /\ ~IsEmpty(last.endo_peaks)

C9_WitnessUnresolvable ==
    /\ ProcessedAGene
    /\ last.gene \notin DOMAIN name_to_info
    /\ IsEmpty(last.exo_peaks)

\* C10: the promoter window is [max(0, start - window), start + window] on the '+'
\* strand and [max(0, end - window), end + window] on the '-' strand, and its
\* start is never negative.
C10_PromoterWindow ==
    probe.done
        => LET tss == IF probe.strand = "+" THEN probe.start ELSE probe.end
           IN  /\ probe.out.start >= 0
               /\ tss - probe.window >= 0 => probe.out.start = tss - probe.window
               /\ tss - probe.window < 0 => probe.out.start = 0
               /\ probe.out.end = tss + probe.window

\* a '-' gene whose end lies closer to 0 than the window is wide
C10_Witness ==
    /\ probe.done
    /\ probe.strand = "-"
    /\ probe.start < probe.end
    /\ probe.end < probe.window
    /\ probe.out.start = 0

\* C11: standardize_gene_name is idempotent on every string, also with whitespace
\* before a gene- prefix and with a repeated or mixed-case gene- prefix, and a
\* missing value standardizes to a missing value.
C11_StandardizeIdempotent ==
    probe.done
        => /\ probe.twice = probe.once
           /\ probe.gene_name.na => probe.once = NA

LoadedRows(d) == UNION { Range(d[i][2].rows) : i \in 1..Len(d) }

\* C12: every peak of every loaded sample table of both conditions has end > start
\* and signalValue >= 0, and every sample depth is at least 1, whatever the raw
\* rows and whether or not the depth could be determined.
C12_LoadedPeaksValid ==
    /\ \A r \in LoadedRows(peaks_exo) \cup LoadedRows(peaks_endo) :
         /\ HasEnd(r) /\ r.end > r.start
         /\ r.signalValue >= 0
    /\ \A i \in 1..Len(depths_exo) : depths_exo[i][2] >= 1
    /\ \A i \in 1..Len(depths_endo) : depths_endo[i][2] >= 1

LoadDataPcs == { "read_dea", "load_exo", "load_endo", "check_peaks", "load_annotations" }

\* C13: once load_data has returned, no step changes the sample tables of either
\* condition or the gene name index: the lookups of the gene loop and of
\* plot_width_vs_enrichment and the rest of analyze_enrichment leave them as they are.
C13_TablesReadOnlyAfterLoad ==
    [][ pc \notin LoadDataPcs
          => /\ peaks_exo' = peaks_exo
             /\ peaks_endo' = peaks_endo
             /\ name_to_info' = name_to_info ]_vars

\* the run is through: lookups that found peaks in both conditions happened in the
\* gene loop and again for the width plot
C13_Witness ==
    /\ pc = "done"
    /\ ~IsEmpty(last.exo_peaks)
    /\ ~IsEmpty(last.endo_peaks)
    /\ \E i \in 1..Len(last.exo_peaks.rows) : last.exo_peaks.rows[i].sample = exo_samples[1]
    /\ results["width_weighted"] # << >>

EmittedRecords ==
    Range(enrichment_scores) \cup UNION { Range(results[m]) : m \in DOMAIN results }
                             \cup UNION { Range(csv[m]) : m \in DOMAIN csv }

\* C14: every emitted record carries log2FoldChange > 0.5 and padj < 0.05: the
\* values copied into it come from a row that passed the up-regulation filter,
\* also when several rows of the table standardize to the same gene name.
C14_RecordsCarryUpRegulatedValues ==
    \A rec \in EmittedRecords :
        /\ rec.log2FoldChange > LFC_MIN_TENTHS
        /\ rec.padj < PADJ_MAX_HUNDREDTHS

====
